---- MODULE Spec2Model ----
(***************************************************************************)
(* A model of link.py: the vocabulary, the embedding-file reader and its   *)
(* disk cache, the two concept-extraction strategies and the linker.       *)
(*                                                                         *)
(* Strings that the code inspects character by character (tokens, concept  *)
(* keys, vocabulary words) are sequences of one-character strings, so that *)
(* '_'.join, replace_numbers and the '#' test are computed, not assumed.   *)
(***************************************************************************)
EXTENDS Integers, Sequences, FiniteSets, TLC

VARIABLES
    pc,            \* position of the running function
    tokens,        \* greedy/exhaustive: the local `tokens`
    vocab,         \* the Vocab object in use
    ngram_length,  \* the ngram_length argument
    n,             \* loop variable n of either extraction function
    i,             \* loop variable i of exhaustive_extraction
    out,           \* the local list `out`
    input,         \* the token list the caller passed in
    resource,      \* read_embedding_file: the text resource being parsed
    result,        \* read_embedding_file: what the call produced
    disk,          \* the embedding resources on disk, by path
    cache_dir,     \* whether CACHE_DIR exists
    cache_files,   \* the files of CACHE_DIR, by cache path
    ret,           \* the cached loader: the last call and what it returned
    metric,        \* link: the metric argument
    extraction_strategy, \* link: the extraction_strategy argument
    num_candidates,      \* link: the num_candidates argument
    embeddings,    \* link: the embedding matrix
    index,         \* link: the search index
    output_file,   \* link: the output file and the lines written to it
    dataset,       \* link: the records generate_instances has read so far
    instance,      \* link: the record being processed (output_instance)
    node_pos,      \* link: position in instance['nodes'].items()
    candidate_ids, \* link: the ids of the last query
    scores,        \* link: the scores of the last query
    cand_pos,      \* link: position in zip(candidate_ids, scores)
    candidate,     \* link: the local `candidate`, unbound until assigned
    searches,      \* link: the index.search calls issued
    warnings,      \* link: the number of warnings logged
    io_log,        \* link: the file-system and index steps performed
    error          \* link: the exception that ended the run

extractVars == <<tokens, vocab, ngram_length, n, i, out, input>>
loadVars == <<resource, result>>
cacheVars == <<disk, cache_dir, cache_files, ret>>

linkVars ==
    <<metric, extraction_strategy, num_candidates, embeddings, index,
      output_file, dataset, instance, node_pos, candidate_ids, scores,
      cand_pos, candidate, searches, warnings, io_log, error>>

vars == <<pc, extractVars, loadVars, cacheVars, linkVars>>

----------------------------------------------------------------------------
(* Bounds of the model *)

MaxLen == 3        \* longest token list / phrase
MaxNgram == 3      \* largest ngram_length tried

----------------------------------------------------------------------------
(* Strings *)

Digits == {"0", "1"}

tokA == <<"a">>
tok1 == <<"1">>
tok11 == <<"1", "1">>

TokenUniverse == {tokA, tok1, tok11}

\* Vocabulary keys the model draws vocabularies from, in a fixed file order.
KeySeq ==
    << <<"a">>,
       <<"a", "_", "a">>,
       <<"a", "_", "a", "_", "a">>,
       <<"#", "#">>,
       <<"1", "_", "a">> >>

Range(s) == {s[k] : k \in 1..Len(s)}

Min(a, b) == IF a < b THEN a ELSE b

\* Python's s[a:b] for 0 <= a, with b clipped to len(s).
Slice(s, a, b) == SubSeq(s, a + 1, Min(b, Len(s)))

\* '_'.join(parts)
RECURSIVE Join(_)
Join(parts) ==
    IF parts = <<>> THEN <<>>
    ELSE IF Len(parts) = 1 THEN parts[1]
    ELSE parts[1] \o <<"_">> \o Join(Tail(parts))

\* text_to_uri.replace_numbers: when the string holds two adjacent digits,
\* every digit becomes '#'; otherwise the string is returned as it is.
replace_numbers(s) ==
    IF \E k \in 1..(Len(s) - 1) : s[k] \in Digits /\ s[k + 1] \in Digits
    THEN [k \in 1..Len(s) |-> IF s[k] \in Digits THEN "#" ELSE s[k]]
    ELSE s

----------------------------------------------------------------------------
(* Vocab *)

\* {word: idx for idx, word in enumerate(words)}: a later duplicate wins.
WordToIdx(words) ==
    [w \in Range(words) |->
        CHOOSE k \in 0..(Len(words) - 1) :
            /\ words[k + 1] = w
            /\ \A j \in 0..(Len(words) - 1) : words[j + 1] = w => j <= k]

Vocab(words) == [idx_to_word |-> words, word_to_idx |-> WordToIdx(words)]

InVocab(concept, v) == concept \in DOMAIN v.word_to_idx

----------------------------------------------------------------------------
(* Values of the variables a specification does not use *)

None == "none"

LoadIdle == resource = None /\ result = None

CacheIdle == disk = None /\ cache_dir = FALSE /\ cache_files = None /\ ret = None

LinkIdle ==
    /\ metric = None
    /\ extraction_strategy = None
    /\ num_candidates = 0
    /\ embeddings = <<>>
    /\ index = None
    /\ output_file = None
    /\ dataset = <<>>
    /\ instance = None
    /\ node_pos = 0
    /\ candidate_ids = <<>>
    /\ scores = <<>>
    /\ cand_pos = 0
    /\ candidate = None
    /\ searches = <<>>
    /\ warnings = 0
    /\ io_log = {}
    /\ error = None

ExtractIdle ==
    /\ tokens = <<>>
    /\ ngram_length = 0
    /\ n = 0
    /\ i = 0
    /\ out = <<>>
    /\ input = <<>>

----------------------------------------------------------------------------
(* exhaustive_extraction, one action per loop test *)

\* The token lists, vocabularies and n-gram lengths the extraction functions
\* are called with.
RECURSIVE SeqsUpTo(_, _)
SeqsUpTo(S, k) ==
    IF k = 0 THEN {<<>>}
    ELSE LET shorter == SeqsUpTo(S, k - 1)
         IN shorter \cup {Append(s, x) : s \in {t \in shorter : Len(t) = k - 1}, x \in S}

TokenLists == SeqsUpTo(TokenUniverse, MaxLen)

Vocabularies ==
    {Vocab(SelectSeq(KeySeq, LAMBDA w : w \in K)) : K \in SUBSET Range(KeySeq)}

NgramLengths == (0 - 1)..MaxNgram

\* The window tokens[a : a+m] joined with '_' and number-normalized.
Concept(ts, a, m) == replace_numbers(Join(Slice(ts, a, a + m)))

\* n in range(1, ngram_length)
ExhRangeBroken(nn, L) == nn <= L
ExhRange(nn, L) == nn < L

\* i in range(num_tokens - n + 1)
ExhStartRange(ii, ts, nn) == ii < Len(ts) - nn + 1

InitExhaustive ==
    /\ LoadIdle
    /\ CacheIdle
    /\ LinkIdle
    /\ input \in TokenLists
    /\ tokens = input
    /\ vocab \in Vocabularies
    /\ ngram_length \in NgramLengths
    /\ pc = "ex_for_n"
    /\ n = 1
    /\ i = 0
    /\ out = <<>>

ExhForN ==
    /\ pc = "ex_for_n"
    /\ IF ExhRange(n, ngram_length)
       THEN pc' = "ex_for_i" /\ i' = 0
       ELSE pc' = "ex_return" /\ i' = i
    /\ UNCHANGED <<tokens, vocab, ngram_length, n, out, input>>
    /\ UNCHANGED <<loadVars, cacheVars, linkVars>>

ExhForI ==
    /\ pc = "ex_for_i"
    /\ IF ExhStartRange(i, tokens, n)
       THEN /\ out' = IF InVocab(Concept(tokens, i, n), vocab)
                      THEN Append(out, Concept(tokens, i, n))
                      ELSE out
            /\ i' = i + 1
            /\ UNCHANGED <<pc, n>>
       ELSE /\ n' = n + 1
            /\ pc' = "ex_for_n"
            /\ UNCHANGED <<i, out>>
    /\ UNCHANGED <<tokens, vocab, ngram_length, input>>
    /\ UNCHANGED <<loadVars, cacheVars, linkVars>>

NextExhaustive == ExhForN \/ ExhForI

SpecExhaustive == InitExhaustive /\ [][NextExhaustive]_vars

----------------------------------------------------------------------------
(* greedy_extraction, one action per loop test *)

InitGreedy ==
    /\ LoadIdle
    /\ CacheIdle
    /\ LinkIdle
    /\ input \in TokenLists
    /\ tokens = input
    /\ vocab \in Vocabularies
    /\ ngram_length \in NgramLengths
    /\ pc = "gr_while"
    /\ n = 0
    /\ i = 0
    /\ out = <<>>

\* while len(tokens) > 0: ... for n in range(ngram_length + 1, 0, -1)
GrWhile ==
    /\ pc = "gr_while"
    /\ IF Len(tokens) > 0
       THEN pc' = "gr_for" /\ n' = ngram_length + 1
       ELSE pc' = "gr_return" /\ n' = n
    /\ UNCHANGED <<tokens, vocab, ngram_length, i, out, input>>
    /\ UNCHANGED <<loadVars, cacheVars, linkVars>>

\* One pass of the for loop.  The range yields only values above 0 and ends
\* with 1, so the loop is left when n <= 0 on entry, on break, and after the
\* body ran with n = 1.
GrFor ==
    /\ pc = "gr_for"
    /\ IF n <= 0
       THEN pc' = "gr_while" /\ UNCHANGED <<tokens, out, n>>
       ELSE IF InVocab(Concept(tokens, 0, n), vocab)
            THEN /\ out' = Append(out, Concept(tokens, 0, n))
                 /\ tokens' = Slice(tokens, n, Len(tokens))
                 /\ pc' = "gr_while"
                 /\ n' = n
            ELSE IF n = 1
                 THEN /\ tokens' = Slice(tokens, n, Len(tokens))
                      /\ pc' = "gr_while"
                      /\ UNCHANGED <<out, n>>
                 ELSE /\ n' = n - 1
                      /\ UNCHANGED <<pc, tokens, out>>
    /\ UNCHANGED <<vocab, ngram_length, i, input>>
    /\ UNCHANGED <<loadVars, cacheVars, linkVars>>

NextGreedy == GrWhile \/ GrFor

SpecGreedy == InitGreedy /\ [][NextGreedy]_vars

----------------------------------------------------------------------------
(* Properties of exhaustive_extraction *)

\* The matches of window length m, by increasing start position.
MatchesOfLength(ts, v, m) ==
    SelectSeq([k \in 1..(Len(ts) - m + 1) |->
                  replace_numbers(Join(SubSeq(ts, k, k + m - 1)))],
              LAMBDA c : c \in Range(v.idx_to_word))

RECURSIVE MatchesUpTo(_, _, _)
MatchesUpTo(ts, v, m) ==
    IF m < 1 THEN <<>>
    ELSE MatchesUpTo(ts, v, m - 1) \o MatchesOfLength(ts, v, m)

----------------------------------------------------------------------------
(* Properties of greedy_extraction *)

\* The window lengths in ngram_length+1 down to 1 whose window is a key.
MatchingLengths(ts, v, L) ==
    {m \in 1..(L + 1) : InVocab(Concept(ts, 0, m), v)}

Largest(S) == CHOOSE m \in S : \A k \in S : k <= m

\* What the claim says one step of the cursor does.
GreedyStepAsClaimed ==
    IF MatchingLengths(tokens, vocab, ngram_length) # {}
    THEN LET m == Largest(MatchingLengths(tokens, vocab, ngram_length))
         IN /\ out' = Append(out, Concept(tokens, 0, m))
            /\ tokens' = Slice(tokens, m, Len(tokens))
    ELSE /\ out' = out
         /\ tokens' = Tail(tokens)

\* C2: every pass of the outer loop of greedy_extraction emits the longest
\* matching window at the cursor and moves past it, or, when no length
\* matches, drops exactly one token and emits nothing.
GreedyLongestMatchStep ==
    [][(pc = "gr_for" /\ pc' = "gr_while") => GreedyStepAsClaimed]_vars

\* The same step, for the n-gram lengths for which the range of the inner
\* loop is not empty.
GreedyLongestMatchStepNonNegative ==
    [][(pc = "gr_for" /\ pc' = "gr_while" /\ ngram_length >= 0)
            => GreedyStepAsClaimed]_vars

\* C3: every pass of the outer loop of greedy_extraction strictly shortens
\* the remaining token list.
GreedyCursorAdvances ==
    [][(pc = "gr_for" /\ pc' = "gr_while") => Len(tokens') < Len(tokens)]_vars

\* The same, for the n-gram lengths for which the range of the inner loop is
\* not empty.
GreedyCursorAdvancesNonNegative ==
    [][(pc = "gr_for" /\ pc' = "gr_while" /\ ngram_length >= 0)
            => Len(tokens') < Len(tokens)]_vars

\* The new_york_city example: three tokens, one key, consumed in one step.
GreedyThreeTokenExample ==
    (/\ pc = "gr_return"
     /\ input = <<tokA, tokA, tokA>>
     /\ InVocab(<<"a", "_", "a", "_", "a">>, vocab)
     /\ ngram_length >= 2)
        => out = << <<"a", "_", "a", "_", "a">> >>

----------------------------------------------------------------------------
(* read_embedding_file, the undecorated function *)

MaxV == 2          \* largest vocabulary size a header declares
MaxD == 2          \* largest dimensionality a header declares
MaxLines == 2      \* most data lines in a resource

FloatValues == {1, 2}

FileWords == {<<"a">>, <<"#", "#">>}

\* A data line after line.split(): the word and then the floats; a blank
\* line splits into nothing.
DataLines ==
    {<<>>} \cup {<<w>> \o fs : w \in FileWords, fs \in SeqsUpTo(FloatValues, MaxD)}

EmbeddingFiles ==
    [exists : {TRUE},
     header : (0..MaxV) \X (1..MaxD),
     lines : SeqsUpTo(DataLines, MaxLines)]

MissingFile == [exists |-> FALSE]

Raise(e) == [err |-> e]

Returned(v, m) == [err |-> "none", vocab |-> v, embeddings |-> m]

\* np.zeros(shape)
Zeros(shape) == [r \in 1..shape[1] |-> [c \in 1..shape[2] |-> 0]]

\* embeddings[i] = embedding: numpy takes a 1-d array whose length is the row
\* length, and broadcasts a 1-d array of length one.
RowAssignable(row, D) == Len(row) = D \/ Len(row) = 1

RowAssigned(row, D) == IF Len(row) = D THEN row ELSE [c \in 1..D |-> row[1]]

\* The loop over enumerate(f), from data line k (0-based) on.
RECURSIVE ReadRows(_, _, _, _, _)
ReadRows(lines, k, words, matrix, shape) ==
    IF k >= Len(lines)
    THEN Returned(Vocab(words), matrix)
    ELSE LET line == lines[k + 1]
         IN IF line = <<>>
            THEN Raise("ValueError")       \* word, *embedding = []
            ELSE IF k >= shape[1]
            THEN Raise("IndexError")       \* embeddings[i] past the last row
            ELSE IF ~RowAssignable(Tail(line), shape[2])
            THEN Raise("ValueError")       \* could not broadcast
            ELSE ReadRows(lines, k + 1, Append(words, line[1]),
                          [matrix EXCEPT
                              ![k + 1] = RowAssigned(Tail(line), shape[2])],
                          shape)

read_embedding_file(file) ==
    IF ~file.exists
    THEN Raise("FileNotFoundError")
    ELSE ReadRows(file.lines, 0, <<>>, Zeros(file.header), file.header)

InitLoad ==
    /\ ExtractIdle
    /\ vocab = None
    /\ CacheIdle
    /\ LinkIdle
    /\ pc = "read_call"
    /\ resource \in EmbeddingFiles
    /\ result = Raise("pending")

ReadEmbeddingFile ==
    /\ pc = "read_call"
    /\ result' = read_embedding_file(resource)
    /\ pc' = "read_done"
    /\ UNCHANGED <<resource, extractVars, cacheVars, linkVars>>

NextLoad == ReadEmbeddingFile

SpecLoad == InitLoad /\ [][NextLoad]_vars

----------------------------------------------------------------------------
(* Properties of read_embedding_file and Vocab *)

WellFormedLine(line, D) == line # <<>> /\ Len(line) = D + 1

\* C8: read_embedding_file fails whenever some data line does not carry
\* exactly D floats or fewer than V data lines are present; it returns only
\* when exactly V well-formed rows follow the header, and then row i holds
\* the floats of the i-th data line.
ReadEmbeddingRejectsMalformed ==
    pc = "read_done" =>
        LET V == resource.header[1]
            D == resource.header[2]
            lines == resource.lines
        IN /\ ((\E k \in 1..Len(lines) : ~WellFormedLine(lines[k], D))
                  \/ Len(lines) < V)
                 => result.err # "none"
           /\ result.err = "none"
                 => /\ Len(lines) = V
                    /\ \A k \in 1..V : /\ WellFormedLine(lines[k], D)
                                       /\ result.embeddings[k] = Tail(lines[k])

\* C9: the ids of a vocabulary read from a resource are a bijection between
\* its keys and 0..V-1 in file-read order.
VocabIsBijection ==
    (pc = "read_done" /\ result.err = "none") =>
        LET words == result.vocab.idx_to_word
            ids == result.vocab.word_to_idx
        IN /\ \A a, b \in 1..Len(words) : words[a] = words[b] => a = b
           /\ \A k \in 0..(Len(words) - 1) : ids[words[k + 1]] = k
           /\ \A w \in DOMAIN ids : words[ids[w] + 1] = w

----------------------------------------------------------------------------
(* The disk cache around read_embedding_file *)

Paths == {"e1.txt", "e2.txt"}

\* The resources the cached loader is run on: two tables with the same
\* header and different floats, a table of another shape, a resource with a
\* blank data line, and no resource at all.
FileOneRowA == [exists |-> TRUE, header |-> <<1, 1>>, lines |-> << <<tokA, 1>> >>]
FileOneRowB == [exists |-> TRUE, header |-> <<1, 1>>, lines |-> << <<tokA, 2>> >>]
FileTwoRows ==
    [exists |-> TRUE, header |-> <<2, 1>>,
     lines |-> << <<tokA, 1>>, <<(<<"#", "#">>), 2>> >>]
FileBlankLine == [exists |-> TRUE, header |-> <<1, 1>>, lines |-> << <<>> >>]

CacheContents == {FileOneRowA, FileOneRowB, FileTwoRows, FileBlankLine, MissingFile}

\* _cache_path: CACHE_DIR / sha1(fn_name + args_string + kwargs_string); the
\* digest is kept as the string it is taken of.
CachePath(fn_name, path) == <<fn_name, path, "{}">>

CachePaths == {CachePath("read_embedding_file", p) : p \in Paths}

NoFile == [exists |-> FALSE]

Pickled(output) == [exists |-> TRUE, value |-> output]

\* if path.exists()
CachedOutputNeverAvailable(files, path) == FALSE
CachedOutputAvailable(files, path) == files[path].exists

\* load_cached_if_available(embedding_file): <<what the caller gets, whether
\* the function body ran, the files of CACHE_DIR afterwards>>
LoadCachedIfAvailable(files, dir_exists, resources, embedding_file) ==
    LET path == CachePath("read_embedding_file", embedding_file)
    IN IF CachedOutputAvailable(files, path)
       THEN <<files[path].value, FALSE, files>>
       ELSE LET output == read_embedding_file(resources[embedding_file])
            IN IF output.err # "none"
               THEN <<output, TRUE, files>>
               ELSE IF ~dir_exists
               THEN <<Raise("FileNotFoundError"), TRUE, files>>   \* open(path, 'wb')
               ELSE <<output, TRUE, [files EXCEPT ![path] = Pickled(output)]>>

\* ret also keeps the resource the path held when the call was made.
NoCall ==
    [path |-> "none", parsed |-> FALSE, output |-> Raise("nocall"),
     resource |-> MissingFile]

InitCache ==
    /\ ExtractIdle
    /\ vocab = None
    /\ LoadIdle
    /\ LinkIdle
    /\ pc = "cache"
    /\ disk \in [Paths -> CacheContents]
    /\ cache_dir = FALSE
    /\ cache_files = [k \in CachePaths |-> NoFile]
    /\ ret = NoCall

\* init_cache()
InitCacheDir ==
    /\ pc = "cache"
    /\ cache_dir' = TRUE
    /\ UNCHANGED <<pc, disk, cache_files, ret, extractVars, loadVars, linkVars>>

\* A call read_embedding_file(embedding_file) of the decorated function.
LoadCall ==
    /\ pc = "cache"
    /\ \E embedding_file \in Paths :
          LET r == LoadCachedIfAvailable(cache_files, cache_dir, disk, embedding_file)
          IN /\ ret' = [path |-> embedding_file, parsed |-> r[2], output |-> r[1],
                        resource |-> disk[embedding_file]]
             /\ cache_files' = r[3]
    /\ UNCHANGED <<pc, disk, cache_dir, extractVars, loadVars, linkVars>>

\* The resource at a path is replaced, created or removed.
ChangeResource ==
    /\ pc = "cache"
    /\ \E p \in Paths, c \in CacheContents : disk' = [disk EXCEPT ![p] = c]
    /\ UNCHANGED <<pc, cache_dir, cache_files, ret, extractVars, loadVars, linkVars>>

NextCache == InitCacheDir \/ LoadCall \/ ChangeResource

SpecCache == InitCache /\ [][NextCache]_vars

\* C10: a cache entry, once written, is never removed or overwritten, and a
\* call for a path whose entry exists returns that entry without running the
\* parser, whatever the resource on disk holds by then.
CacheEntryIsFinal ==
    [][/\ \A k \in CachePaths :
             cache_files[k].exists => cache_files'[k] = cache_files[k]
       /\ (ret' # ret
             /\ cache_files[CachePath("read_embedding_file", ret'.path)].exists)
            => /\ ret'.parsed = FALSE
               /\ ret'.output =
                     cache_files[CachePath("read_embedding_file", ret'.path)].value
      ]_vars

\* A call answered from the cache after the resource changed: the parser did
\* not run and the result is not what the resource held at the call parses to.
StaleCachedResultReturned ==
    /\ pc = "cache"
    /\ ret.path \in Paths
    /\ ret.parsed = FALSE
    /\ ret.output.err = "none"
    /\ ret.output # read_embedding_file(ret.resource)

----------------------------------------------------------------------------
(* The extraction functions as link calls them *)

\* exhaustive_extraction from loop position (nn, ii) on.
RECURSIVE ExhaustiveFrom(_, _, _, _, _, _)
ExhaustiveFrom(ts, v, L, nn, ii, acc) ==
    IF ~ExhRange(nn, L) THEN acc
    ELSE IF ~ExhStartRange(ii, ts, nn) THEN ExhaustiveFrom(ts, v, L, nn + 1, 0, acc)
    ELSE ExhaustiveFrom(ts, v, L, nn, ii + 1,
                        IF InVocab(Concept(ts, ii, nn), v)
                        THEN Append(acc, Concept(ts, ii, nn))
                        ELSE acc)

exhaustive_extraction(ts, v, L) == ExhaustiveFrom(ts, v, L, 1, 0, <<>>)

\* greedy_extraction does not return when the range of its inner loop is
\* empty and there is a token left.
GreedyDiverges(ts, L) == L + 1 <= 0 /\ ts # <<>>

\* greedy_extraction from the inner loop at nn on, for L >= 0.
RECURSIVE GreedyFrom(_, _, _, _, _)
GreedyFrom(ts, v, L, nn, acc) ==
    IF ts = <<>> THEN acc
    ELSE IF InVocab(Concept(ts, 0, nn), v)
    THEN GreedyFrom(Slice(ts, nn, Len(ts)), v, L, L + 1, Append(acc, Concept(ts, 0, nn)))
    ELSE IF nn = 1
    THEN GreedyFrom(Slice(ts, nn, Len(ts)), v, L, L + 1, acc)
    ELSE GreedyFrom(ts, v, L, nn - 1, acc)

greedy_extraction(ts, v, L) == GreedyFrom(ts, v, L, L + 1, <<>>)

\* get_extraction_fn(extraction_strategy, ngram_length)(tokens, vocab)
extraction_fn(strategy, ts, v, L) ==
    IF strategy = "exhaustive"
    THEN exhaustive_extraction(ts, v, L)
    ELSE greedy_extraction(ts, v, L)

----------------------------------------------------------------------------
(* link *)

MaxRecords == 2      \* most records in the input stream
MaxNodes == 2        \* most nodes in a record
MaxCandidates == 2   \* largest num_candidates

tokUpperA == <<"A">>
tokThe == <<"t", "h", "e">>

\* x.lower()
Lower(tok) == [k \in 1..Len(tok) |-> IF tok[k] = "A" THEN "a" ELSE tok[k]]

\* text_to_uri.english_filter: the stopwords are dropped.
StopWords == {tokThe}
english_filter(ts) == SelectSeq(ts, LAMBDA t : t \notin StopWords)

Metrics == {"cosine", "l2"}
Strategies == {"exhaustive", "greedy"}

\* assert metric in {...}; assert extraction_strategy in {...}
ConfigNotAsserted(m, st) == TRUE
ConfigAsserted(m, st) == m \in Metrics /\ st \in Strategies

EmbeddingPath == "e1.txt"

Phrases == {<<>>, <<tokThe>>, <<tok1>>, <<tokUpperA>>, <<tokThe, tokUpperA, tokA>>}

Nodes == [phrase : Phrases, label : {"n"}, has_candidates : {FALSE}, candidates : {<<>>}]

Records == [meta : {"r1", "r2"}, nodes : SeqsUpTo(Nodes, MaxNodes)]

LinkNgramLengths == {0 - 1, 1, 3}

NoError == [type |-> "none", line |-> 0]

Unbound == [bound |-> FALSE]

\* output_instance = instance.copy()
CopyNodesOnly(inst) == [inst EXCEPT !.meta = "none"]
CopyInstance(inst) == inst

\* index.search(query, k) on an index of V rows: k ids, best first, distinct,
\* padded with -1 when the index holds fewer than k rows.
SearchResults(V, k) ==
    {[j \in 1..k |-> IF j <= Len(s) THEN s[j] ELSE 0 - 1] :
        s \in {t \in SeqsUpTo(0..(V - 1), Min(k, V)) :
                  /\ Len(t) = Min(k, V)
                  /\ \A a, b \in 1..Len(t) : t[a] = t[b] => a = b}}

\* The scores of a result of k ids: only their rank is kept.
RankScores(k) == [j \in 1..k |-> k - j]

\* words[candidate_id], a Python list index
ListIndexValid(words, id) == 0 - Len(words) <= id /\ id < Len(words)
ListItem(words, id) == IF id >= 0 THEN words[id + 1] ELSE words[Len(words) + id + 1]

linkFrame == <<tokens, n, i, out, input, loadVars, ret, disk>>

InitLink ==
    /\ tokens = <<>> /\ n = 0 /\ i = 0 /\ out = <<>> /\ input = <<>>
    /\ LoadIdle
    /\ ret = None
    /\ pc = "link_assert"
    /\ metric \in Metrics \cup {"dot"}
    /\ extraction_strategy \in Strategies \cup {"all"}
    /\ ngram_length \in LinkNgramLengths
    /\ num_candidates \in 1..MaxCandidates
    /\ disk \in {[p \in Paths |-> IF p = EmbeddingPath THEN c ELSE MissingFile] :
                    c \in CacheContents}
    /\ cache_dir \in BOOLEAN
    /\ cache_files \in
          {[k \in CachePaths |-> NoFile]} \cup
          {[k \in CachePaths |->
              IF cache_dir /\ k = CachePath("read_embedding_file", EmbeddingPath)
              THEN Pickled(read_embedding_file(FileTwoRows))
              ELSE NoFile]}
    /\ vocab = Vocab(<<>>)
    /\ embeddings = <<>>
    /\ index = [built |-> FALSE]
    /\ output_file = [open |-> FALSE, lines |-> <<>>]
    /\ dataset = <<>>
    /\ instance = [meta |-> "none", nodes |-> <<>>]
    /\ node_pos = 0
    /\ candidate_ids = <<>>
    /\ scores = <<>>
    /\ cand_pos = 0
    /\ candidate = Unbound
    /\ searches = <<>>
    /\ warnings = 0
    /\ io_log = {}
    /\ error = NoError

\* The run ends with an exception raised at a line of link.py.
LinkRaise(type, line) ==
    /\ pc' = "link_failed"
    /\ error' = [type |-> type, line |-> line]

\* lines 171-172
LinkAssert ==
    /\ pc = "link_assert"
    /\ IF ConfigAsserted(metric, extraction_strategy)
       THEN pc' = "link_init_cache" /\ error' = error
       ELSE LinkRaise("AssertionError", IF metric \in Metrics THEN 172 ELSE 171)
    /\ UNCHANGED <<linkFrame, vocab, ngram_length, cache_dir, cache_files>>
    /\ UNCHANGED <<metric, extraction_strategy, num_candidates, embeddings, index,
                   output_file, dataset, instance, node_pos, candidate_ids, scores,
                   cand_pos, candidate, searches, warnings, io_log>>

\* line 177: init_cache()
LinkInitCache ==
    /\ pc = "link_init_cache"
    /\ cache_dir' = TRUE
    /\ io_log' = io_log \cup {"init_cache"}
    /\ pc' = "link_read"
    /\ UNCHANGED <<linkFrame, vocab, ngram_length, cache_files>>
    /\ UNCHANGED <<metric, extraction_strategy, num_candidates, embeddings, index,
                   output_file, dataset, instance, node_pos, candidate_ids, scores,
                   cand_pos, candidate, searches, warnings, error>>

\* line 178: vocab, embeddings = read_embedding_file(embedding_file)
LinkReadEmbedding ==
    /\ pc = "link_read"
    /\ io_log' = io_log \cup {"read_embedding"}
    /\ LET r == LoadCachedIfAvailable(cache_files, cache_dir, disk, EmbeddingPath)
       IN /\ cache_files' = r[3]
          /\ IF r[1].err # "none"
             THEN LinkRaise(r[1].err, 178) /\ UNCHANGED <<vocab, embeddings>>
             ELSE /\ vocab' = r[1].vocab
                  /\ embeddings' = r[1].embeddings
                  /\ pc' = "link_build"
                  /\ error' = error
    /\ UNCHANGED <<linkFrame, ngram_length, cache_dir>>
    /\ UNCHANGED <<metric, extraction_strategy, num_candidates, index,
                   output_file, dataset, instance, node_pos, candidate_ids, scores,
                   cand_pos, candidate, searches, warnings>>

\* line 179: index = build_index(metric, embeddings)
LinkBuildIndex ==
    /\ pc = "link_build"
    /\ io_log' = io_log \cup {"build_index"}
    /\ IF metric \in Metrics
       THEN /\ index' = [built |-> TRUE, metric |-> metric, rows |-> embeddings]
            /\ pc' = "link_get_fn"
            /\ error' = error
       ELSE LinkRaise("ValueError", 90) /\ index' = index
    /\ UNCHANGED <<linkFrame, vocab, ngram_length, cache_dir, cache_files>>
    /\ UNCHANGED <<metric, extraction_strategy, num_candidates, embeddings,
                   output_file, dataset, instance, node_pos, candidate_ids, scores,
                   cand_pos, candidate, searches, warnings>>

\* line 180: extraction_fn = get_extraction_fn(extraction_strategy, ngram_length)
LinkGetExtractionFn ==
    /\ pc = "link_get_fn"
    /\ IF extraction_strategy \in Strategies
       THEN pc' = "link_open" /\ error' = error
       ELSE LinkRaise("ValueError", 110)
    /\ UNCHANGED <<linkFrame, vocab, ngram_length, cache_dir, cache_files>>
    /\ UNCHANGED <<metric, extraction_strategy, num_candidates, embeddings, index,
                   output_file, dataset, instance, node_pos, candidate_ids, scores,
                   cand_pos, candidate, searches, warnings, io_log>>

\* line 182: output_file = open(output, 'w')
LinkOpenOutput ==
    /\ pc = "link_open"
    /\ output_file' = [open |-> TRUE, lines |-> <<>>]
    /\ io_log' = io_log \cup {"open_output"}
    /\ pc' = "link_next"
    /\ UNCHANGED <<linkFrame, vocab, ngram_length, cache_dir, cache_files>>
    /\ UNCHANGED <<metric, extraction_strategy, num_candidates, embeddings, index,
                   dataset, instance, node_pos, candidate_ids, scores,
                   cand_pos, candidate, searches, warnings, error>>

\* lines 183-184: generate_instances yields the next record of the input.
LinkNextInstance ==
    /\ pc = "link_next"
    /\ Len(dataset) < MaxRecords
    /\ \E record \in Records :
          /\ dataset' = Append(dataset, record)
          /\ instance' = CopyInstance(record)
    /\ node_pos' = 1
    /\ io_log' = io_log \cup {"read_input"}
    /\ pc' = "link_node"
    /\ UNCHANGED <<linkFrame, vocab, ngram_length, cache_dir, cache_files>>
    /\ UNCHANGED <<metric, extraction_strategy, num_candidates, embeddings, index,
                   output_file, candidate_ids, scores,
                   cand_pos, candidate, searches, warnings, error>>

\* line 183: the input is exhausted and link returns.
LinkEndOfInput ==
    /\ pc = "link_next"
    /\ io_log' = io_log \cup {"read_input"}
    /\ pc' = "link_return"
    /\ UNCHANGED <<linkFrame, vocab, ngram_length, cache_dir, cache_files>>
    /\ UNCHANGED <<metric, extraction_strategy, num_candidates, embeddings, index,
                   output_file, dataset, instance, node_pos, candidate_ids, scores,
                   cand_pos, candidate, searches, warnings, error>>

\* tokens = english_filter([x.lower() for x in node['phrase']])
NodeTokens(node) ==
    english_filter([k \in 1..Len(node.phrase) |-> Lower(node.phrase[k])])

WithCandidates(inst, pos, cands) ==
    [inst EXCEPT !.nodes[pos].has_candidates = TRUE,
                 !.nodes[pos].candidates = cands]

\* lines 185-197: one node, up to the construction of the zip over np.nditer.
\* np.nditer raises ValueError on the empty list of the no-concept branch.
LinkNode ==
    /\ pc = "link_node"
    /\ node_pos <= Len(instance.nodes)
    /\ LET toks == NodeTokens(instance.nodes[node_pos])
       IN IF extraction_strategy = "greedy" /\ GreedyDiverges(toks, ngram_length)
          THEN /\ pc' = "link_hang"
               /\ UNCHANGED <<instance, candidate_ids, scores, cand_pos, searches, error>>
          ELSE LET concepts == extraction_fn(extraction_strategy, toks, vocab, ngram_length)
                   concept_ids == [k \in 1..Len(concepts) |->
                                      vocab.word_to_idx[concepts[k]]]
               IN /\ instance' = WithCandidates(instance, node_pos, <<>>)
                  /\ IF Len(concept_ids) > 0
                     THEN /\ \E ids \in SearchResults(Len(index.rows), num_candidates) :
                                candidate_ids' = ids
                          /\ scores' = RankScores(num_candidates)
                          /\ searches' = Append(searches,
                                [record |-> Len(dataset), node |-> node_pos,
                                 ids |-> concept_ids])
                          /\ cand_pos' = 1
                          /\ pc' = "link_cand"
                          /\ error' = error
                     ELSE /\ candidate_ids' = <<>>
                          /\ scores' = <<>>
                          /\ LinkRaise("ValueError", 197)
                          /\ UNCHANGED <<searches, cand_pos>>
    /\ UNCHANGED <<linkFrame, vocab, ngram_length, cache_dir, cache_files>>
    /\ UNCHANGED <<metric, extraction_strategy, num_candidates, embeddings, index,
                   output_file, dataset, node_pos, candidate, warnings, io_log>>

\* lines 197-207: one pass of the candidate loop, or its end.
LinkCandidate ==
    /\ pc = "link_cand"
    /\ IF cand_pos > Len(candidate_ids)
       THEN /\ node_pos' = node_pos + 1
            /\ pc' = "link_node"
            /\ UNCHANGED <<instance, cand_pos, candidate, warnings, error>>
       ELSE IF ~candidate.bound
       THEN /\ LinkRaise("UnboundLocalError", 198)
            /\ UNCHANGED <<instance, node_pos, cand_pos, candidate, warnings>>
       ELSE IF "#" \in Range(candidate.word)
       THEN /\ warnings' = warnings + 1
            /\ cand_pos' = cand_pos + 1
            /\ UNCHANGED <<pc, instance, node_pos, candidate, error>>
       ELSE IF ~ListIndexValid(vocab.idx_to_word, candidate_ids[cand_pos])
       THEN /\ LinkRaise("IndexError", 203)
            /\ UNCHANGED <<instance, node_pos, cand_pos, candidate, warnings>>
       ELSE LET word == ListItem(vocab.idx_to_word, candidate_ids[cand_pos])
            IN /\ candidate' = [bound |-> TRUE, word |-> word]
               /\ instance' = WithCandidates(instance, node_pos,
                      Append(instance.nodes[node_pos].candidates,
                             [uri |-> <<"/", "c", "/", "e", "n", "/">> \o word,
                              score |-> scores[cand_pos]]))
               /\ cand_pos' = cand_pos + 1
               /\ UNCHANGED <<pc, node_pos, warnings, error>>
    /\ UNCHANGED <<linkFrame, vocab, ngram_length, cache_dir, cache_files>>
    /\ UNCHANGED <<metric, extraction_strategy, num_candidates, embeddings, index,
                   output_file, dataset, candidate_ids, scores, searches, io_log>>

\* line 208: output_file.write(json.dumps(output_instance) + '\n')
LinkWrite ==
    /\ pc = "link_node"
    /\ node_pos > Len(instance.nodes)
    /\ output_file' = [output_file EXCEPT !.lines = Append(@, instance)]
    /\ pc' = "link_next"
    /\ UNCHANGED <<linkFrame, vocab, ngram_length, cache_dir, cache_files>>
    /\ UNCHANGED <<metric, extraction_strategy, num_candidates, embeddings, index,
                   dataset, instance, node_pos, candidate_ids, scores,
                   cand_pos, candidate, searches, warnings, io_log, error>>

NextLink ==
    \/ LinkAssert
    \/ LinkInitCache
    \/ LinkReadEmbedding
    \/ LinkBuildIndex
    \/ LinkGetExtractionFn
    \/ LinkOpenOutput
    \/ LinkNextInstance
    \/ LinkEndOfInput
    \/ LinkNode
    \/ LinkCandidate
    \/ LinkWrite

SpecLink == InitLink /\ [][NextLink]_vars

----------------------------------------------------------------------------
(* Properties of link *)

\* The node link is working on has been given its candidates list.
NodeInHand ==
    /\ pc \in {"link_cand", "link_failed"}
    /\ node_pos \in 1..Len(instance.nodes)
    /\ instance.nodes[node_pos].has_candidates

ConceptsInHand ==
    extraction_fn(extraction_strategy, NodeTokens(instance.nodes[node_pos]),
                  vocab, ngram_length)

\* C4: a node whose filtered phrase yields no concept gets the empty
\* candidates list, no index.search call is issued for it, and link goes on
\* with the next node; the node does not end the run.
ZeroConceptNodeContinues ==
    (NodeInHand /\ ConceptsInHand = <<>>) =>
        /\ instance.nodes[node_pos].candidates = <<>>
        /\ \A k \in 1..Len(searches) :
              ~(searches[k].record = Len(dataset) /\ searches[k].node = node_pos)
        /\ pc # "link_failed"

\* The candidates the pairs before position upto give: the words without '#',
\* in rank order, under the /c/en/ prefix.
ExpectedCandidates(upto) ==
    LET pairs == [j \in 1..upto |->
                    [word |-> ListItem(vocab.idx_to_word, candidate_ids[j]),
                     score |-> scores[j]]]
        kept == SelectSeq(pairs, LAMBDA c : "#" \notin Range(c.word))
    IN [j \in 1..Len(kept) |->
           [uri |-> <<"/", "c", "/", "e", "n", "/">> \o kept[j].word,
            score |-> kept[j].score]]

\* C5: in the candidate loop every returned pair whose own word holds '#' is
\* skipped and every other pair is appended in rank order, and the loop goes
\* on to the next pair.
CandidateLoopFiltersByOwnWord ==
    /\ ~(pc = "link_failed" /\ error.line \in {198, 203})
    /\ (pc = "link_cand" /\ node_pos \in 1..Len(instance.nodes))
          => instance.nodes[node_pos].candidates = ExpectedCandidates(cand_pos - 1)

\* C6: with a metric outside {cosine, l2} or a strategy outside {exhaustive,
\* greedy}, link is at its assertions or has failed there: no cache
\* directory step, no embedding read, no index, no output file, no input
\* record.
InvalidConfigFailsBeforeIO ==
    (metric \notin {"cosine", "l2"} \/ extraction_strategy \notin {"exhaustive", "greedy"})
        => /\ pc \in {"link_assert", "link_failed"}
           /\ (pc = "link_failed" => error.type = "AssertionError")
           /\ io_log = {}
           /\ ~index.built
           /\ ~output_file.open
           /\ dataset = <<>>

InvalidMetricRejected ==
    /\ pc = "link_failed"
    /\ metric = "dot"
    /\ extraction_strategy = "greedy"
    /\ error.type = "AssertionError"

\* Every field other than candidates is the one of the record read.
SameButCandidates(built, record) ==
    /\ built.meta = record.meta
    /\ Len(built.nodes) = Len(record.nodes)
    /\ \A k \in 1..Len(record.nodes) :
          /\ built.nodes[k].phrase = record.nodes[k].phrase
          /\ built.nodes[k].label = record.nodes[k].label

SameExceptCandidates(written, record) ==
    /\ SameButCandidates(written, record)
    /\ \A k \in 1..Len(record.nodes) : written.nodes[k].has_candidates

----------------------------------------------------------------------------
(* The whole program: each run is one of the functions above *)

Init == InitExhaustive \/ InitGreedy \/ InitLoad \/ InitCache \/ InitLink

Next == NextExhaustive \/ NextGreedy \/ NextLoad \/ NextCache \/ NextLink

Spec == Init /\ [][Next]_vars

====
